---------------------------- MODULE Spec2Model ----------------------------
(***************************************************************************)
(* Model of packages/protocol/scripts/truffle/make-release-stabletoken.ts: *)
(* the release script that seeds a table of contract addresses from the    *)
(* registry, releases every core contract after its dependencies, deploys  *)
(* what the compatibility report lists and builds a governance proposal.   *)
(***************************************************************************)
EXTENDS Naturals, Sequences, FiniteSets, TLC

(***************************************************************************)
(* Bounds of the model.                                                    *)
(***************************************************************************)
\* Depth of nested release() calls the JavaScript stack holds before a
\* RangeError ends the run (a dependency cycle recurses until then).
MaxStack == 4

\* The meta-transactions a wallet executes in the model: the nonce stops here.
MaxNonce == 3

\* Depth of nested executeMetaTransaction calls (the EVM allows 1024).
MaxDepth == 2

(***************************************************************************)
(* Program constants.                                                      *)
(***************************************************************************)
NULL_ADDRESS == 0
celoRegistryAddress == 52752

(***************************************************************************)
(* The build directory, the artifacts and the inputs read from files.      *)
(***************************************************************************)
\* readdirSync(build_directory/contracts), in directory order.
contracts == <<"Exchange", "ExchangeGBP", "Governance", "LinkedList", "Proposals">>

Names == {contracts[k] : k \in 1..Len(contracts)}

\* Object.keys(CeloContractName)
CeloContractName == {"Exchange", "Governance"}

\* The artifacts named <contract>Proxy that artifacts.require can load.
ProxyArtifacts == {"Exchange", "ExchangeGBP", "Governance"}

\* The libraries among the artifacts.
Libraries == {"LinkedList", "Proposals"}

Index(name) == CHOOSE k \in 1..Len(contracts) : contracts[k] = name

\* The address the on-chain registry reports for a registered name, and the
\* address libraries.json gives a library: distinct per name and per origin.
RegisteredAddress(name) == 100 + Index(name)
LibraryAddress(name) == 200 + Index(name)

\* getCeloContractDependencies(): the ordered direct dependencies per name.
NoDependencies == [n \in Names |-> <<>>]
DependencyGraphs ==
  { \* a diamond: Exchange -> LinkedList -> Proposals, Exchange -> Proposals,
    \* and Proposals shared with the second root
    [NoDependencies EXCEPT !["Exchange"] = <<"LinkedList", "Proposals">>,
                           !["LinkedList"] = <<"Proposals">>,
                           !["Governance"] = <<"Proposals">>],
    \* a core contract that is a dependency of another root
    [NoDependencies EXCEPT !["Governance"] = <<"Exchange", "Proposals">>,
                           !["Exchange"] = <<"LinkedList">>],
    \* a cycle between the two libraries
    [NoDependencies EXCEPT !["Exchange"] = <<"LinkedList">>,
                           !["LinkedList"] = <<"Proposals">>,
                           !["Proposals"] = <<"LinkedList">>],
    \* a root that an earlier root has released as its dependency
    [NoDependencies EXCEPT !["Exchange"] = <<"Governance">>],
    \* a unit that depends on itself
    [NoDependencies EXCEPT !["Governance"] = <<"Governance">>] }

\* One entry of report.contracts: changes.storage is non-empty, changes.major
\* holds a change of type NewContract.
ChangeRecords ==
  { [storage |-> FALSE, newContract |-> FALSE],
    [storage |-> TRUE,  newContract |-> FALSE],
    [storage |-> FALSE, newContract |-> TRUE] }

\* fullReport.report: report.contracts maps some core contracts to their
\* changes, report.libraries lists some libraries.
Reports ==
  UNION { UNION { { [contracts |-> c, libraries |-> l] :
                      c \in [cs -> ChangeRecords] } :
                  cs \in SUBSET CeloContractName } :
          l \in SUBSET Libraries }

\* The names the registry holds a non-null address for.
Registries == { {"Exchange", "ExchangeGBP", "Governance"}, {"Exchange", "LinkedList"},
                {"Exchange", "ExchangeGBP", "Governance", "LinkedList"} }

\* libraries.json: the names it gives an address.
LibraryMappings == { {"LinkedList", "Proposals"}, {"Proposals"} }

VARIABLES
  report,          \* fullReport.report
  dependencies,    \* getCeloContractDependencies()
  registry,        \* names registered on chain
  libraryMapping,  \* names of libraries.json
  dryRun,          \* argv.dry_run
  phase,           \* "seeding", "releasing", "done" (callback()), "failed" (callback(error))
  pending,         \* seeding: names whose registry lookup has not resolved
  addresses,       \* ContractAddresses.addresses: a Map, its keys the DOMAIN
  released,        \* the Set released, in insertion order
  proposal,        \* ProposalTx[]
  stack,           \* active release() calls, innermost last
  next,            \* index into contracts of the driver loop
  deployed,        \* contracts created on chain (Contract.new, Proxy.new), in order
  owner,           \* proxy address -> owner set by _transferOwnership
  links,           \* contractArtifact.link(d, address) calls: <<name, d, address>>
  abi,             \* abi of the deployed artifact, per name, once read
  error,           \* the error handed to the callback
  written,         \* writeJsonSync(argv.proposal, proposal) happened
  first,           \* what an earlier, real run over the same inputs left, if any
  \* MetaTransactionWallet (the Solidity contract in the same file):
  nonce,           \* uint256 public nonce
  signer,          \* address public signer
  frames,          \* executeMetaTransaction calls in progress, innermost last
  executions,      \* MetaTransactionExecution events emitted, in order
  refused,         \* the last call that failed the signer check, if any
  \* TwilioVerifyProvider.sendSms:
  given,           \* the attestation as the caller passed it
  attestation,     \* the attestation object, which sendSms writes to
  requestParams,   \* the object passed to verifications.create
  requests,        \* the requests made to Twilio, as sent, in order
  failures,        \* the errors Twilio answered with, in order
  smsPc,           \* "idle", "first" and "second" (a request awaited), "done"
  thrown           \* the error sendSms rejected with, "none" otherwise

vars == <<report, dependencies, registry, libraryMapping, dryRun, phase, pending,
          addresses, released, proposal, stack, next, deployed, owner, links,
          abi, error, written, first, nonce, signer, frames, executions, refused,
          given, attestation, requestParams, requests, failures, smsPc, thrown>>

\* The call of sendSms.
sms == <<given, attestation, requestParams, requests, failures, smsPc, thrown>>

\* The storage of the wallet and the calls in progress in it.
wallet == <<nonce, signer, frames, executions, refused>>

\* What no step of a run of the script changes: what it read at lines
\* 233-247, and the wallet contract and the SMS provider, which the script
\* does not touch.
inputs == <<report, dependencies, registry, libraryMapping, dryRun, first, wallet,
            sms>>

(***************************************************************************)
(* Values: a proposal's args hold names, addresses and call data.          *)
(***************************************************************************)
Str(s) == [t |-> "string", s |-> s, a |-> 0]
Adr(a) == [t |-> "address", s |-> "", a |-> a]
Undefined == [t |-> "undefined", s |-> "", a |-> 0]

Range(seq) == {seq[k] : k \in 1..Len(seq)}

(***************************************************************************)
(* ContractAddresses                                                       *)
(***************************************************************************)
has(contract) == contract \in DOMAIN addresses

\* addresses.set(contract, address) on the table tbl
MapSet(tbl, contract, address) ==
  [c \in DOMAIN tbl \cup {contract} |-> IF c = contract THEN address ELSE tbl[c]]

\* registry.getAddressForString(contract)
getAddressForString(contract) ==
  IF contract \in registry THEN RegisteredAddress(contract) ELSE NULL_ADDRESS

\* Mutant of LookupResolved: the null address is stored like any other.
LookupResolvedKeepingNull(tbl, contract) ==
  MapSet(tbl, contract, getAddressForString(contract))

\* One lookup of ContractAddresses.create resolves: the entry is set unless the
\* registry answered the null address.
LookupResolved(tbl, contract) ==
  LET registeredAddress == getAddressForString(contract)
  IN  IF registeredAddress # NULL_ADDRESS
      THEN MapSet(tbl, contract, registeredAddress)
      ELSE tbl

\* Object.entries(libraryAddresses).forEach(addresses.set)
Overlay(tbl) ==
  [c \in DOMAIN tbl \cup libraryMapping |->
     IF c \in libraryMapping THEN LibraryAddress(c) ELSE tbl[c]]

\* No call was refused.
NoCall == [by |-> "nobody", msg |-> "none", nonce |-> 0, depth |-> 0]

\* The wallet after initialize(_signer): the signer set, no meta-transaction
\* executed yet.
WalletInitialized ==
  /\ nonce = 0
  /\ signer = "alice"
  /\ frames = << >>
  /\ executions = << >>
  /\ refused = NoCall

\* requestParams before sendSms builds it.
NoParams ==
  [to |-> "absent", channel |-> "absent", customCode |-> "absent",
   appHash |-> "absent", locale |-> "absent"]

\* sendSms is called with the attestation: nothing is sent yet.
Called(a) ==
  /\ given = a
  /\ attestation = a
  /\ requestParams = NoParams
  /\ requests = << >>
  /\ failures = << >>
  /\ smsPc = "idle"
  /\ thrown = "none"

\* No message is to be sent.
SmsNotCalled ==
  Called([phoneNumber |-> "absent", securityCode |-> "absent",
          appSignature |-> "undefined", language |-> "undefined"])

\* The script has not been run before.
NoFirstRun == [run |-> FALSE, proposal |-> << >>, abi |-> << >>]

Init ==
  /\ WalletInitialized
  /\ SmsNotCalled
  /\ first = NoFirstRun
  /\ report \in Reports
  /\ dependencies \in DependencyGraphs
  /\ registry \in Registries
  /\ libraryMapping \in LibraryMappings
  /\ dryRun \in BOOLEAN
  /\ phase = "seeding"
  /\ pending = Names
  /\ addresses = << >>
  /\ released = << >>
  /\ proposal = << >>
  /\ stack = << >>
  /\ next = 1
  /\ deployed = << >>
  /\ owner = << >>
  /\ links = {}
  /\ abi = << >>
  /\ error = "none"
  /\ written = FALSE

\* ContractAddresses.create: the lookups resolve in any order; when the last
\* has resolved, Promise.all resolves and the library mapping is laid over.
Lookup(contract) ==
  /\ phase = "seeding"
  /\ contract \in pending
  /\ pending' = pending \ {contract}
  /\ addresses' = LookupResolved(addresses, contract)
  /\ UNCHANGED <<inputs, phase, released, proposal, stack, next, deployed, owner,
                 links, abi, error, written>>

Create ==
  /\ phase = "seeding"
  /\ pending = {}
  /\ addresses' = Overlay(addresses)
  /\ phase' = "releasing"
  /\ UNCHANGED <<inputs, pending, released, proposal, stack, next, deployed, owner,
                 links, abi, error, written>>

(***************************************************************************)
(* The report's decisions.                                                 *)
(***************************************************************************)
\* contractName.endsWith('Proxy')
EndsWithProxy(contractName) ==
  contractName \in {"ExchangeProxy", "ExchangeGBPProxy", "GovernanceProxy",
                    "LinkedListProxy", "ProposalsProxy"}

isProxiedContract(contractName) ==
  IF EndsWithProxy(contractName) THEN FALSE ELSE contractName \in ProxyArtifacts

isCoreContract(contractName) == contractName \in CeloContractName

shouldDeployContract(contractName) == contractName \in DOMAIN report.contracts

shouldDeployLibrary(contractName) == contractName \in report.libraries

\* Mutant of shouldDeployProxy: every contract of the report gets a new proxy.
shouldDeployProxyAlways(contractName) == contractName \in DOMAIN report.contracts

\* Mutant of shouldDeployProxy: the NewContract marker is not looked at.
shouldDeployProxyStorageOnly(contractName) ==
  report.contracts[contractName].storage

shouldDeployProxy(contractName) ==
  LET hasStorageChanges == report.contracts[contractName].storage
      isNewContract == report.contracts[contractName].newContract
  IN  hasStorageChanges \/ isNewContract

(***************************************************************************)
(* release(contractName): one frame per active call.                       *)
(*   pc "deps"     the loop over the dependencies, then the link           *)
(*      "core"     deployCoreContract is to deploy the implementation      *)
(*      "library"  deployLibrary is to deploy the implementation           *)
(*      "decide"   the implementation is deployed; proxy or not            *)
(*      "proxy"    deployProxy is to create the proxy                      *)
(*      "transfer" deployProxy is to transfer the proxy's ownership        *)
(*      "record"   the proxy is returned to deployCoreContract             *)
(*      "mark"     released.add                                            *)
(***************************************************************************)
\* Mutant of Frame: the body starts past the loop over the dependencies.
FrameSkippingDependencies(contractName) ==
  [name |-> contractName, i |-> Len(dependencies[contractName]) + 1, pc |-> "deps",
   contract |-> NULL_ADDRESS, proxy |-> NULL_ADDRESS]

Frame(contractName) ==
  [name |-> contractName, i |-> 1, pc |-> "deps", contract |-> NULL_ADDRESS,
   proxy |-> NULL_ADDRESS]

Top == stack[Len(stack)]

Caller == SubSeq(stack, 1, Len(stack) - 1)

SetTop(f) == [stack EXCEPT ![Len(stack)] = f]

Running(pc) == phase = "releasing" /\ stack # << >> /\ Top.pc = pc

\* The address of the next contract created on chain.
FreshAddress == 1000 + Len(deployed)

Abis == [getVersionNumber : BOOLEAN, initialize : BOOLEAN]

\* contract.abi is the abi of the artifact, the same in every run over one
\* build directory: a run after another reads what the other read.
AbisOf(contractName) ==
  IF first.run /\ contractName \in DOMAIN first.abi
  THEN {first.abi[contractName]}
  ELSE Abis

\* Whether encodeFunctionCall accepts initializationData[contractName] for
\* the initializer: open, but the same in every run over the same data.
Encodings(contractName) ==
  IF /\ first.run
     /\ \E k \in 1..Len(first.proposal) :
          /\ first.proposal[k].contract = contractName \o "Proxy"
          /\ first.proposal[k].function = "_setAndInitializeImplementation"
  THEN {TRUE}
  ELSE BOOLEAN

\* Mutant of Fail: the error is noted and the driver loop goes on.
FailContinuing(kind) ==
  /\ phase' = phase
  /\ error' = kind
  /\ stack' = << >>

\* An error thrown anywhere in the try block unwinds to callback(error).
Fail(kind) ==
  /\ phase' = "failed"
  /\ error' = kind
  /\ stack' = << >>

\* Mutant of Enter: no check of the released set.
EnterUnchecked(contractName, stk) == Append(stk, Frame(contractName))

\* Mutant of Enter: a contract whose release is under way is not entered again.
EnterSkippingActive(contractName, stk) ==
  IF \/ contractName \in Range(released)
     \/ \E k \in 1..Len(stk) : stk[k].name = contractName
  THEN stk
  ELSE Append(stk, Frame(contractName))

\* release(contractName) called with the frames stk active: line 254 returns
\* at once for a released contract, anything else runs the body.
Enter(contractName, stk) ==
  IF contractName \in Range(released) THEN stk ELSE Append(stk, Frame(contractName))

\* Mutant of ReleaseRoot: the driver may call release for any contract of the
\* build directory.
ReleaseRootUnfiltered ==
  /\ phase = "releasing" /\ stack = << >> /\ next <= Len(contracts)
  /\ stack' = Enter(contracts[next], stack)
  /\ next' = next + 1
  /\ UNCHANGED <<inputs, phase, pending, addresses, released, proposal, deployed,
                 owner, links, abi, error, written>>

\* The driver loop, lines 287-291.
ReleaseRoot ==
  /\ phase = "releasing" /\ stack = << >> /\ next <= Len(contracts)
  /\ isCoreContract(contracts[next]) /\ isProxiedContract(contracts[next])
  /\ stack' = Enter(contracts[next], stack)
  /\ next' = next + 1
  /\ UNCHANGED <<inputs, phase, pending, addresses, released, proposal, deployed,
                 owner, links, abi, error, written>>

DriverSkip ==
  /\ phase = "releasing" /\ stack = << >> /\ next <= Len(contracts)
  /\ ~(isCoreContract(contracts[next]) /\ isProxiedContract(contracts[next]))
  /\ next' = next + 1
  /\ UNCHANGED <<inputs, phase, pending, addresses, released, proposal, stack,
                 deployed, owner, links, abi, error, written>>

\* Step 1, lines 258-261: release the next dependency. The JavaScript stack is
\* finite: a call past MaxStack frames throws a RangeError.
ReleaseDependency ==
  /\ Running("deps")
  /\ Top.i <= Len(dependencies[Top.name])
  /\ LET dependency == dependencies[Top.name][Top.i]
         stk == SetTop([Top EXCEPT !.i = @ + 1])
         entered == Enter(dependency, stk)
     IN  IF Len(entered) > MaxStack
         THEN Fail("RangeError") /\ UNCHANGED <<>>
         ELSE stack' = entered /\ UNCHANGED <<phase, error>>
  /\ UNCHANGED <<inputs, pending, addresses, released, proposal, next, deployed,
                 owner, links, abi, written>>

\* The links made by contractDependencies.map(d => link(d, addresses.get(d)))
\* over the dependencies from index k on: get throws at the first name the
\* table lacks, after the links before it were made.
RECURSIVE LinksFrom(_, _, _)
LinksFrom(contractName, deps, k) ==
  IF k > Len(deps) \/ ~has(deps[k])
  THEN {}
  ELSE {<<contractName, deps[k], addresses[deps[k]]>>}
         \cup LinksFrom(contractName, deps, k + 1)

\* Mutant of Classify: whatever is not a contract of the report is deployed
\* as a library.
ClassifyAbsentAsLibrary(contractName) ==
  IF shouldDeployContract(contractName) THEN "core" ELSE "library"

\* Step 3's classification, lines 267-282.
Classify(contractName) ==
  IF shouldDeployContract(contractName) THEN "core"
  ELSE IF shouldDeployLibrary(contractName) THEN "library"
  ELSE "mark"

\* Mutant of Link: a name the table lacks is linked at the zero address and
\* the release goes on.
LinkDefaultingToNull ==
  /\ Running("deps")
  /\ Top.i > Len(dependencies[Top.name])
  /\ links' = links \cup
        { <<Top.name, d, IF has(d) THEN addresses[d] ELSE NULL_ADDRESS>> :
            d \in Range(dependencies[Top.name]) }
  /\ stack' = SetTop([Top EXCEPT !.pc = Classify(Top.name)])
  /\ UNCHANGED <<inputs, phase, error, pending, addresses, released, proposal, next,
                 deployed, owner, abi, written>>

\* Step 2, lines 263-264.
Link ==
  /\ Running("deps")
  /\ Top.i > Len(dependencies[Top.name])
  /\ LET deps == dependencies[Top.name]
     IN  /\ links' = links \cup LinksFrom(Top.name, deps, 1)
         /\ IF \A d \in Range(deps) : has(d)
            THEN /\ stack' = SetTop([Top EXCEPT !.pc = Classify(Top.name)])
                 /\ UNCHANGED <<phase, error>>
            ELSE Fail("AddressNotFound")
  /\ UNCHANGED <<inputs, pending, addresses, released, proposal, next, deployed,
                 owner, abi, written>>

\* deployImplementation, lines 79-103, for the contract of the top frame: the
\* backend creates the contract (or fails), the abi is read, and a contract
\* that must state a version and does not is refused. onward is the frame's
\* next pc, record tells whether the caller stores the address in the table.
deployImplementation(requireVersion, onward, record) ==
  \E created \in BOOLEAN, a \in AbisOf(Top.name) :
    LET address == IF dryRun THEN celoRegistryAddress ELSE FreshAddress
    IN  IF ~dryRun /\ ~created
        THEN /\ Fail("DeploymentFailed")
             /\ UNCHANGED <<deployed, abi, addresses>>
        ELSE /\ deployed' = IF dryRun THEN deployed
                            ELSE Append(deployed, [name |-> Top.name,
                                                   proxy |-> FALSE,
                                                   address |-> address])
             /\ abi' = MapSet(abi, Top.name, a)
             /\ IF requireVersion /\ ~a.getVersionNumber
                THEN Fail("NoVersionNumber") /\ UNCHANGED addresses
                ELSE /\ stack' = SetTop([Top EXCEPT !.pc = onward,
                                                    !.contract = address])
                     /\ addresses' = IF record
                                     THEN MapSet(addresses, Top.name, address)
                                     ELSE addresses
                     /\ UNCHANGED <<phase, error>>

\* Mutant of DeployCoreImplementation: the guard for Governance comes first,
\* before the implementation is deployed.
DeployCoreImplementationGuarded ==
  /\ Running("core")
  /\ IF Top.name = "Governance" /\ shouldDeployProxy(Top.name)
     THEN Fail("GovernanceProxy") /\ UNCHANGED <<deployed, abi, addresses>>
     ELSE deployImplementation(TRUE, "decide", FALSE)
  /\ UNCHANGED <<inputs, pending, released, proposal, next, owner, links, written>>

\* Mutant of DeployCoreImplementation: no version number is required.
DeployCoreImplementationUnversioned ==
  /\ Running("core")
  /\ deployImplementation(FALSE, "decide", FALSE)
  /\ UNCHANGED <<inputs, pending, released, proposal, next, owner, links, written>>

\* deployCoreContract, line 156.
DeployCoreImplementation ==
  /\ Running("core")
  /\ deployImplementation(TRUE, "decide", FALSE)
  /\ UNCHANGED <<inputs, pending, released, proposal, next, owner, links, written>>

\* Mutant of DeployLibrary: the new address is not stored in the table.
DeployLibraryNotRecorded ==
  /\ Running("library")
  /\ deployImplementation(FALSE, "mark", FALSE)
  /\ UNCHANGED <<inputs, pending, released, proposal, next, owner, links, written>>

\* Mutant of DeployLibrary: the library is also registered through the proposal.
DeployLibraryRegistered ==
  /\ Running("library")
  /\ deployImplementation(FALSE, "mark", TRUE)
  /\ proposal' = Append(proposal,
                        [contract |-> "Registry", function |-> "setAddressFor",
                         args |-> <<Str(Top.name), Adr(FreshAddress)>>,
                         value |-> "0"])
  /\ UNCHANGED <<inputs, pending, released, next, owner, links, written>>

\* deployLibrary, lines 211-221.
DeployLibrary ==
  /\ Running("library")
  /\ deployImplementation(FALSE, "mark", TRUE)
  /\ UNCHANGED <<inputs, pending, released, proposal, next, owner, links, written>>

ProposalTx(contract, function, args) ==
  [contract |-> contract, function |-> function, args |-> args, value |-> "0"]

\* `${contractName}Proxy`
ProxyName(contractName) ==
  CASE contractName = "Exchange" -> "ExchangeProxy"
    [] contractName = "ExchangeGBP" -> "ExchangeGBPProxy"
    [] contractName = "Governance" -> "GovernanceProxy"
    [] contractName = "LinkedList" -> "LinkedListProxy"
    [] contractName = "Proposals" -> "ProposalsProxy"

setImplementationTx(contractName, address) ==
  ProposalTx(ProxyName(contractName), "_setImplementation", <<Adr(address)>>)

\* Mutant of Decide: deployProxy has no guard for Governance.
DecideWithoutGuard ==
  /\ Running("decide")
  /\ IF ~shouldDeployProxy(Top.name)
     THEN /\ proposal' = Append(proposal, setImplementationTx(Top.name, Top.contract))
          /\ stack' = SetTop([Top EXCEPT !.pc = "mark"])
     ELSE /\ stack' = SetTop([Top EXCEPT !.pc = "proxy"])
          /\ UNCHANGED proposal
  /\ UNCHANGED <<inputs, phase, error, pending, addresses, released, next, deployed,
                 owner, links, abi, written>>

\* Mutant of Decide: the entry of an implementation-only release is put at
\* the head of the proposal.
DecidePrepending ==
  /\ Running("decide")
  /\ IF ~shouldDeployProxy(Top.name)
     THEN /\ proposal' = <<setImplementationTx(Top.name, Top.contract)>> \o proposal
          /\ stack' = SetTop([Top EXCEPT !.pc = "mark"])
          /\ UNCHANGED <<phase, error>>
     ELSE IF Top.name = "Governance"
     THEN Fail("GovernanceProxy") /\ UNCHANGED proposal
     ELSE /\ stack' = SetTop([Top EXCEPT !.pc = "proxy"])
          /\ UNCHANGED <<phase, error, proposal>>
  /\ UNCHANGED <<inputs, pending, addresses, released, next, deployed, owner,
                 links, abi, written>>

\* deployCoreContract, lines 164-173, and deployProxy's guard, lines 118-120.
Decide ==
  /\ Running("decide")
  /\ IF ~shouldDeployProxy(Top.name)
     THEN /\ proposal' = Append(proposal, setImplementationTx(Top.name, Top.contract))
          /\ stack' = SetTop([Top EXCEPT !.pc = "mark"])
          /\ UNCHANGED <<phase, error>>
     ELSE IF Top.name = "Governance"
     THEN Fail("GovernanceProxy") /\ UNCHANGED proposal
     ELSE /\ stack' = SetTop([Top EXCEPT !.pc = "proxy"])
          /\ UNCHANGED <<phase, error, proposal>>
  /\ UNCHANGED <<inputs, pending, addresses, released, next, deployed, owner,
                 links, abi, written>>

\* deployProxy, lines 121-127.
DeployProxy ==
  /\ Running("proxy")
  /\ \E created \in BOOLEAN :
       LET address == IF dryRun THEN celoRegistryAddress ELSE FreshAddress
       IN  IF ~isProxiedContract(Top.name) \/ (~dryRun /\ ~created)
           THEN Fail("DeploymentFailed") /\ UNCHANGED deployed
           ELSE /\ deployed' = IF dryRun THEN deployed
                               ELSE Append(deployed, [name |-> Top.name,
                                                      proxy |-> TRUE,
                                                      address |-> address])
                /\ stack' = SetTop([Top EXCEPT !.pc = "transfer",
                                               !.proxy = address])
                /\ UNCHANGED <<phase, error>>
  /\ UNCHANGED <<inputs, pending, addresses, released, proposal, next, owner,
                 links, abi, written>>

\* Mutant of TransferOwnership: the transfer is left to the proposal.
TransferOwnershipSkipped ==
  /\ Running("transfer")
  /\ stack' = SetTop([Top EXCEPT !.pc = "record"])
  /\ UNCHANGED <<inputs, phase, error, pending, addresses, released, proposal, next,
                 deployed, owner, links, abi, written>>

\* Mutant of TransferOwnership: the transfer is made in a dry run too.
TransferOwnershipInDryRun ==
  /\ Running("transfer")
  /\ \E sent \in BOOLEAN :
       IF ~has("Governance")
       THEN Fail("AddressNotFound") /\ UNCHANGED owner
       ELSE IF ~sent
       THEN Fail("TransferFailed") /\ UNCHANGED owner
       ELSE /\ owner' = MapSet(owner, Top.proxy, addresses["Governance"])
            /\ stack' = SetTop([Top EXCEPT !.pc = "record"])
            /\ UNCHANGED <<phase, error>>
  /\ UNCHANGED <<inputs, pending, addresses, released, proposal, next, deployed,
                 links, abi, written>>

\* deployProxy, lines 129-135.
TransferOwnership ==
  /\ Running("transfer")
  /\ \E sent \in BOOLEAN :
       IF dryRun
       THEN /\ stack' = SetTop([Top EXCEPT !.pc = "record"])
            /\ UNCHANGED <<phase, error, owner>>
       ELSE IF ~has("Governance")
       THEN Fail("AddressNotFound") /\ UNCHANGED owner
       ELSE IF ~sent
       THEN Fail("TransferFailed") /\ UNCHANGED owner
       ELSE /\ owner' = MapSet(owner, Top.proxy, addresses["Governance"])
            /\ stack' = SetTop([Top EXCEPT !.pc = "record"])
            /\ UNCHANGED <<phase, error>>
  /\ UNCHANGED <<inputs, pending, addresses, released, proposal, next, deployed,
                 links, abi, written>>

setAddressForTx(contractName, address) ==
  ProposalTx("Registry", "setAddressFor", <<Str(contractName), Adr(address)>>)
    @@ [description |-> <<contractName, address>>]

\* web3.eth.abi.encodeFunctionCall(initializeAbi, initializationData[name])
CallData(contractName) == [t |-> "bytes", s |-> contractName, a |-> 0]

\* Mutant of RecordProxy: the implementation is set and initialized by two
\* entries of the proposal.
RecordProxyInTwoEntries ==
  /\ Running("record")
  /\ addresses' = MapSet(addresses, Top.name, Top.proxy)
  /\ LET withRegistry == Append(proposal, setAddressForTx(Top.name, Top.proxy))
         tx == setImplementationTx(Top.name, Top.contract)
     IN  proposal' = IF abi[Top.name].initialize
                     THEN withRegistry \o
                            <<tx, ProposalTx(ProxyName(Top.name), "initialize",
                                             <<CallData(Top.name)>>)>>
                     ELSE Append(withRegistry, tx)
  /\ stack' = SetTop([Top EXCEPT !.pc = "mark"])
  /\ UNCHANGED <<inputs, phase, error, pending, released, next, deployed, owner,
                 links, abi, written>>

\* deployCoreContract, lines 175-208.
RecordProxy ==
  /\ Running("record")
  /\ addresses' = MapSet(addresses, Top.name, Top.proxy)
  /\ LET withRegistry == Append(proposal, setAddressForTx(Top.name, Top.proxy))
         tx == setImplementationTx(Top.name, Top.contract)
     IN  IF abi[Top.name].initialize
         THEN \E encoded \in Encodings(Top.name) :
                IF encoded
                THEN /\ proposal' = Append(withRegistry,
                          [tx EXCEPT !.function = "_setAndInitializeImplementation",
                                     !.args = Append(@, CallData(Top.name))])
                     /\ stack' = SetTop([Top EXCEPT !.pc = "mark"])
                     /\ UNCHANGED <<phase, error>>
                ELSE /\ proposal' = withRegistry
                     /\ Fail("InitializeArgs")
         ELSE /\ proposal' = Append(withRegistry, tx)
              /\ stack' = SetTop([Top EXCEPT !.pc = "mark"])
              /\ UNCHANGED <<phase, error>>
  /\ UNCHANGED <<inputs, pending, released, next, deployed, owner, links, abi,
                 written>>

\* Mutant of MarkReleased: the release returns without adding the contract to
\* the released set.
MarkReleasedForgotten ==
  /\ Running("mark")
  /\ stack' = Caller
  /\ UNCHANGED <<inputs, phase, pending, addresses, released, proposal, next,
                 deployed, owner, links, abi, error, written>>

\* Step 4, line 285, and the return to the caller.
MarkReleased ==
  /\ Running("mark")
  /\ released' = IF Top.name \in Range(released) THEN released
                 ELSE Append(released, Top.name)
  /\ stack' = Caller
  /\ UNCHANGED <<inputs, phase, pending, addresses, proposal, next, deployed,
                 owner, links, abi, error, written>>

\* addresses[property], lines 295-296: a property of the ContractAddresses
\* object, which has the fields addresses, get and set and no other; the
\* names the Map holds are not properties of the object.
PropertyOfAddresses(property) ==
  IF property \in {"addresses", "get", "set"}
  THEN [t |-> "object", s |-> property, a |-> 0]
  ELSE Undefined

\* 'Exchange' + fiat_ticket
ExchangeOf(fiat_ticket) ==
  CASE fiat_ticket = "GBP" -> "ExchangeGBP"

\* Step 5, lines 293-330.
Extras ==
  LET fiat_ticket == "GBP"
      exchangeAddress == PropertyOfAddresses(ExchangeOf(fiat_ticket))
      stableTokenAddress == PropertyOfAddresses(ExchangeOf(fiat_ticket))
  IN  << ProposalTx("SortedOracles", "addOracle", <<stableTokenAddress, Str("TODO")>>),
         ProposalTx("GoldToken", "transfer", <<Str("TODO")>>),
         ProposalTx("Reserve", "addExchangeSpender", <<exchangeAddress>>),
         ProposalTx("Figure out how to get exchange address here", "addOracle",
                    <<Str("0")>>) >>

\* Lines 293-346: the fixed entries, the file and the callback.
Finish ==
  /\ phase = "releasing" /\ stack = << >> /\ next > Len(contracts)
  /\ proposal' = proposal \o Extras
  /\ written' = TRUE
  /\ phase' = "done"
  /\ UNCHANGED <<inputs, pending, addresses, released, stack, next, deployed,
                 owner, links, abi, error>>

Next ==
  \/ \E contract \in Names : Lookup(contract)
  \/ Create
  \/ ReleaseRoot
  \/ DriverSkip
  \/ ReleaseDependency
  \/ Link
  \/ DeployCoreImplementation
  \/ DeployLibrary
  \/ Decide
  \/ DeployProxy
  \/ TransferOwnership
  \/ RecordProxy
  \/ MarkReleased
  \/ Finish

Spec == Init /\ [][Next]_vars

\* The script runs every awaited step to its end: while a step is possible,
\* one is taken.
FairSpec == Spec /\ WF_vars(Next)

\* The script is run again with --dry_run after a real run that succeeded,
\* over the same report, dependencies, build directory, libraries.json,
\* initialization data and registry: every input is read anew (lines
\* 233-249), the table is seeded to what ContractAddresses.create gives for
\* them, and what the real run created on chain is not looked at.
Restart ==
  /\ phase = "done" /\ ~dryRun /\ ~first.run
  /\ first' = [run |-> TRUE, proposal |-> proposal, abi |-> abi]
  /\ dryRun' = TRUE
  /\ phase' = "releasing"
  /\ addresses' = Overlay(LET seed[S \in SUBSET Names] ==
                               IF S = {} THEN << >>
                               ELSE LET c == CHOOSE c \in S : TRUE
                                    IN  LookupResolved(seed[S \ {c}], c)
                          IN  seed[Names])
  /\ released' = << >>
  /\ proposal' = << >>
  /\ next' = 1
  /\ deployed' = << >>
  /\ owner' = << >>
  /\ links' = {}
  /\ abi' = << >>
  /\ written' = FALSE
  /\ UNCHANGED <<report, dependencies, registry, libraryMapping, pending, stack,
                 error, wallet, sms>>

TwinNext == Next \/ Restart

\* A real run, and after a real run that succeeded a dry run over the same inputs.
TwinSpec == Init /\ [][TwinNext]_vars /\ WF_vars(TwinNext)

(***************************************************************************)
(* MetaTransactionWallet: executeMetaTransaction, with the external call   *)
(* it makes calling back into the wallet.                                  *)
(***************************************************************************)
\* The keys that sign: the signer set at initialize, the one setSigner
\* makes signer, and one that is never signer.
Keys == {"alice", "bob", "mallory"}

\* The (destination, value, data) of a meta-transaction: a payment, a call
\* of a contract that calls executeMetaTransaction back, and a call of the
\* wallet's own setSigner(bob).
Msgs == {"pay", "reenter", "setSigner"}

\* A signature (v, r, s): made with a key over the digest of a
\* meta-transaction and a nonce.
Signed == [by : Keys, msg : Msgs, nonce : 0..MaxNonce]

\* getMetaTransactionSigner: the key, when the signature was made over the
\* digest of exactly these fields and this nonce; over any other digest the
\* recovery yields an address that is nobody's.
getMetaTransactionSigner(msg, _nonce, sig) ==
  IF sig.msg = msg /\ sig.nonce = _nonce THEN sig.by ELSE "nobody"

\* Who may call executeMetaTransaction now: anyone while no call is in
\* progress; during the external call of a meta-transaction, the contract
\* called, if it is the one that calls back.
MayCall ==
  /\ Len(frames) < MaxDepth
  /\ frames # << >> => frames[Len(frames)].sig.msg = "reenter"

\* Mutant of executeMetaTransaction: the nonce is left as it is.
executeMetaTransactionKeepingNonce(msg, sig) ==
  /\ MayCall
  /\ nonce < MaxNonce
  /\ IF getMetaTransactionSigner(msg, nonce, sig) # signer
     THEN /\ refused' = [by |-> sig.by, msg |-> sig.msg, nonce |-> sig.nonce,
                         depth |-> Len(frames) + 1]
          /\ UNCHANGED <<nonce, signer, frames, executions>>
     ELSE /\ frames' = Append(frames, [sig |-> sig, nonce |-> nonce, signer |-> signer,
                                       executions |-> executions])
          /\ UNCHANGED <<nonce, signer, executions, refused>>

\* executeMetaTransaction, lines 538-540: the signer recovered over the
\* current nonce is required to be the signer, the nonce is incremented, and
\* the external call starts. A call that fails the requirement reverts; what
\* the frame holds is the storage to go back to if this call reverts later.
executeMetaTransaction(msg, sig) ==
  /\ MayCall
  /\ nonce < MaxNonce
  /\ IF getMetaTransactionSigner(msg, nonce, sig) # signer
     THEN /\ refused' = [by |-> sig.by, msg |-> sig.msg, nonce |-> sig.nonce,
                         depth |-> Len(frames) + 1]
          /\ UNCHANGED <<nonce, signer, frames, executions>>
     ELSE /\ nonce' = nonce + 1
          /\ frames' = Append(frames, [sig |-> sig, nonce |-> nonce, signer |-> signer,
                                       executions |-> executions])
          /\ UNCHANGED <<signer, executions, refused>>

\* Every variable of the release script.
script == <<report, dependencies, registry, libraryMapping, dryRun, first, phase,
            pending, addresses, released, proposal, stack, next, deployed, owner,
            links, abi, error, written>>

ExecuteMetaTransaction ==
  /\ \E msg \in Msgs, sig \in Signed : executeMetaTransaction(msg, sig)
  /\ UNCHANGED <<script, sms>>

\* Lines 540-543: ExternalCall.execute returns, the event is emitted with
\* nonce.sub(1) and the call returns; setSigner, called by the wallet itself,
\* has set the signer (lines 422-425).
ExternalCallReturns ==
  /\ frames # << >>
  /\ LET frame == frames[Len(frames)]
     IN  /\ signer' = IF frame.sig.msg = "setSigner" THEN "bob" ELSE signer
         /\ executions' = Append(executions,
                                 [by |-> frame.sig.by, msg |-> frame.sig.msg,
                                  signed |-> frame.sig.nonce, nonce |-> nonce - 1])
  /\ frames' = SubSeq(frames, 1, Len(frames) - 1)
  /\ UNCHANGED <<nonce, refused, script, sms>>

\* Line 540: ExternalCall.execute reverts, and with it this call of
\* executeMetaTransaction: the storage and the events are as before the call.
ExternalCallReverts ==
  /\ frames # << >>
  /\ LET frame == frames[Len(frames)]
     IN  /\ nonce' = frame.nonce
         /\ signer' = frame.signer
         /\ executions' = frame.executions
  /\ frames' = SubSeq(frames, 1, Len(frames) - 1)
  /\ UNCHANGED <<refused, script, sms>>

\* The script is not run while the wallet is looked at.
ScriptNotRun ==
  /\ first = NoFirstRun
  /\ report = [contracts |-> << >>, libraries |-> {}]
  /\ dependencies = NoDependencies
  /\ registry = {}
  /\ libraryMapping = {}
  /\ dryRun = TRUE
  /\ phase = "seeding"
  /\ pending = Names
  /\ addresses = << >>
  /\ released = << >>
  /\ proposal = << >>
  /\ stack = << >>
  /\ next = 1
  /\ deployed = << >>
  /\ owner = << >>
  /\ links = {}
  /\ abi = << >>
  /\ error = "none"
  /\ written = FALSE

WalletInit == WalletInitialized /\ ScriptNotRun /\ SmsNotCalled

WalletNext ==
  \/ ExecuteMetaTransaction
  \/ ExternalCallReturns
  \/ ExternalCallReverts

WalletSpec == WalletInit /\ [][WalletNext]_vars

(***************************************************************************)
(* TwilioVerifyProvider.sendSms                                            *)
(***************************************************************************)
twilioSupportedLocales ==
  {"af", "ar", "ca", "cs", "da", "de", "el", "en", "en-gb", "es", "fi", "fr",
   "he", "hi", "hr", "hu", "id", "it", "ja", "ko", "ms", "nb", "nl", "pl", "pt",
   "pr-br", "ro", "ru", "sv", "th", "tl", "tr", "vi", "zh", "zh-cn", "zh-hk"}

\* The languages an attestation is given with, besides none and the empty string.
Languages ==
  {"es-419", "ES-419", "es-US", "es-la", "es", "EN", "en-GB", "pt-BR", "zh-HK",
   "de", "xx"}

\* String.prototype.toLocaleLowerCase on these languages.
toLocaleLowerCase(language) ==
  CASE language = "ES-419" -> "es-419"
    [] language = "es-US" -> "es-us"
    [] language = "EN" -> "en"
    [] language = "en-GB" -> "en-gb"
    [] language = "pt-BR" -> "pt-br"
    [] language = "zh-HK" -> "zh-hk"
    [] OTHER -> language

\* A JavaScript condition on an optional string: undefined and '' are false.
Truthy(string) == string \notin {"undefined", ""}

\* The attestations sendSms is called with.
Attestations ==
  [phoneNumber : {"+15550100"}, securityCode : {"12345678"},
   appSignature : {"undefined", "", "hash"},
   language : Languages \cup {"undefined", ""}]

\* The messages of the errors verifications.create rejects with.
Errors ==
  {"SMS is not supported by landline phone number",
   "Invalid parameter To: SMS is not supported by landline phone number +15550100",
   "Invalid parameter: Locale",
   "Too many requests"}

\* e.message.includes('SMS is not supported by landline phone number')
IncludesLandline(message) ==
  message \in
    {"SMS is not supported by landline phone number",
     "Invalid parameter To: SMS is not supported by landline phone number +15550100"}

\* Lines 93-117: the parameters are built, the language is normalized and
\* the first request is made.
SendSms ==
  /\ smsPc = "idle"
  /\ attestation \in Attestations
  /\ LET base == [to |-> attestation.phoneNumber, channel |-> "sms",
                  customCode |-> attestation.securityCode,
                  appHash |-> "absent", locale |-> "absent"]
         withHash == IF Truthy(attestation.appSignature)
                     THEN [base EXCEPT !.appHash = attestation.appSignature]
                     ELSE base
         locale == toLocaleLowerCase(attestation.language)
         params == IF /\ Truthy(attestation.language)
                      /\ locale \in twilioSupportedLocales
                   THEN [withHash EXCEPT !.locale = locale]
                   ELSE withHash
     IN  /\ attestation' = IF /\ Truthy(attestation.language)
                              /\ locale \in {"es-419", "es-us", "es-la"}
                           THEN [attestation EXCEPT !.language = "es"]
                           ELSE attestation
         /\ requestParams' = params
         /\ requests' = <<params>>
  /\ smsPc' = "first"
  /\ UNCHANGED <<given, failures, thrown, script, wallet>>

\* Line 118: the first request succeeded, its sid is returned.
FirstResolves ==
  /\ smsPc = "first"
  /\ smsPc' = "done"
  /\ UNCHANGED <<given, attestation, requestParams, requests, failures, thrown,
                 script, wallet>>

\* Mutant of FirstRejects: whatever the error, the voice call is tried.
FirstRejectsRetryingAlways(e) ==
  /\ smsPc = "first"
  /\ failures' = Append(failures, e)
  /\ requestParams' = [requestParams EXCEPT !.appHash = "undefined", !.channel = "call"]
  /\ requests' = Append(requests, requestParams')
  /\ smsPc' = "second"
  /\ UNCHANGED <<given, attestation, thrown, script, wallet>>

\* Lines 119-130: the first request failed.
FirstRejects(e) ==
  /\ smsPc = "first"
  /\ failures' = Append(failures, e)
  /\ IF IncludesLandline(e)
     THEN /\ requestParams' = [requestParams EXCEPT !.appHash = "undefined",
                                                    !.channel = "call"]
          /\ requests' = Append(requests, requestParams')
          /\ smsPc' = "second"
          /\ UNCHANGED thrown
     ELSE /\ thrown' = e
          /\ smsPc' = "done"
          /\ UNCHANGED <<requestParams, requests>>
  /\ UNCHANGED <<given, attestation, script, wallet>>

\* Line 127: the second request succeeded, its sid is returned.
SecondResolves ==
  /\ smsPc = "second"
  /\ smsPc' = "done"
  /\ UNCHANGED <<given, attestation, requestParams, requests, failures, thrown,
                 script, wallet>>

\* Lines 124-126: the second request failed inside the catch block; its
\* error rejects sendSms.
SecondRejects(e) ==
  /\ smsPc = "second"
  /\ failures' = Append(failures, e)
  /\ thrown' = e
  /\ smsPc' = "done"
  /\ UNCHANGED <<given, attestation, requestParams, requests, script, wallet>>

SmsInit ==
  /\ \E a \in Attestations : Called(a)
  /\ ScriptNotRun
  /\ WalletInitialized

SmsNext ==
  \/ SendSms
  \/ FirstResolves
  \/ \E e \in Errors : FirstRejects(e)
  \/ SecondResolves
  \/ \E e \in Errors : SecondRejects(e)

SmsSpec == SmsInit /\ [][SmsNext]_vars

(***************************************************************************)
(* What the properties speak of.                                           *)
(***************************************************************************)
Released == Range(released)

\* The table ContractAddresses.create is to return for the registry and
\* libraries.json of the run.
SeededTable ==
  [c \in libraryMapping \cup (registry \cap Names) |->
     IF c \in libraryMapping THEN LibraryAddress(c) ELSE RegisteredAddress(c)]

\* The contracts created on chain for a name, implementation or proxy.
Deployments(contractName, isProxy) ==
  {k \in 1..Len(deployed) :
     deployed[k].name = contractName /\ deployed[k].proxy = isProxy}

\* The run replaces the address of the name: a library of the report, or a
\* core contract whose report entry asks for a new proxy.
Redeployed(contractName) ==
  \/ contractName \in report.libraries /\ contractName \notin DOMAIN report.contracts
  \/ /\ contractName \in DOMAIN report.contracts
     /\ \/ report.contracts[contractName].storage
        \/ report.contracts[contractName].newContract

\* The addresses a deployment of the run gave the name (the stand-in in a dry run).
NewAddresses(contractName, isProxy) ==
  IF dryRun THEN {celoRegistryAddress}
  ELSE {deployed[k].address : k \in Deployments(contractName, isProxy)}

\* Frames whose body is past the loop over the dependencies and past the link.
PastLink(f) == f.pc # "deps"

(***************************************************************************)
(* C1. Ordering: every dependency d of a released unit u entered the       *)
(* released set strictly before u did, and was in it before u was linked   *)
(* or deployed.                                                            *)
(***************************************************************************)
C1_DependenciesReleasedFirst ==
  /\ \A k \in 1..Len(released) :
       \A d \in Range(dependencies[released[k]]) :
         \E j \in 1..(k - 1) : released[j] = d
  /\ \A l \in links : l[2] \in Released
  /\ \A k \in 1..Len(deployed) : Range(dependencies[deployed[k].name]) \subseteq Released
  /\ \A k \in 1..Len(stack) :
       PastLink(stack[k]) => Range(dependencies[stack[k].name]) \subseteq Released

C1_Witness ==
  /\ "Exchange" \in Released
  /\ Len(dependencies["Exchange"]) = 2
  /\ Deployments("Exchange", FALSE) # {}
  /\ \E l \in links : l[1] = "Exchange"

(***************************************************************************)
(* C2. No stale link: the address a unit is linked against for dependency  *)
(* d is the table's entry for d after d's release completed; when the run  *)
(* redeployed d, it is the newly deployed address, not the seeded one.     *)
(***************************************************************************)
C2_NoStaleLink ==
  \A l \in links :
    LET d == l[2]
    IN  /\ d \in Released
        /\ has(d)
        /\ l[3] = addresses[d]
        /\ Redeployed(d) =>
             /\ l[3] \in NewAddresses(d, d \in DOMAIN report.contracts)
             /\ d \in DOMAIN SeededTable => l[3] # SeededTable[d]

C2_Witness ==
  /\ ~dryRun
  /\ \E l \in links :
       /\ l[1] = "Governance" /\ l[2] = "Exchange"
       /\ "Exchange" \in DOMAIN report.contracts
       /\ report.contracts["Exchange"].storage
       /\ l[3] # SeededTable["Exchange"]
  /\ \E l \in links :
       /\ l[1] = "Governance" /\ l[2] = "Proposals"
       /\ "Proposals" \in report.libraries
       /\ l[3] # SeededTable["Proposals"]

JustSeeded == phase = "releasing" /\ next = 1 /\ stack = << >>

(***************************************************************************)
(* C10. Seeding: whatever the order in which the registry lookups resolve, *)
(* ContractAddresses.create returns exactly: the mapping's address for     *)
(* each name of the library mapping, the registry's address for each other *)
(* name the registry knows, and no entry for the rest.                     *)
(***************************************************************************)
C10_Seeding == JustSeeded => addresses = SeededTable

C10_Witness ==
  /\ JustSeeded
  /\ registry = {"Exchange", "LinkedList"}
  /\ libraryMapping = {"LinkedList", "Proposals"}
  /\ addresses["LinkedList"] = LibraryAddress("LinkedList")
  /\ ~has("Governance")
  /\ addresses["Exchange"] = RegisteredAddress("Exchange")

\* The proposal's entries that concern a name: the registry entry for it and
\* the entries sent to its proxy.
Concerns(tx, contractName) ==
  \/ tx.contract = ProxyName(contractName)
  \/ tx.contract = "Registry" /\ tx.function = "setAddressFor"
       /\ tx.args[1] = Str(contractName)

EntriesFor(contractName) ==
  SelectSeq(proposal, LAMBDA tx : Concerns(tx, contractName))

InReport(contractName) == contractName \in DOMAIN report.contracts

\* The report entry asks for a new proxy: a storage change or a new contract.
NeedsProxy(contractName) ==
  /\ InReport(contractName)
  /\ report.contracts[contractName].storage \/ report.contracts[contractName].newContract

ImplementationOnly(contractName) ==
  /\ InReport(contractName)
  /\ ~report.contracts[contractName].storage
  /\ ~report.contracts[contractName].newContract

\* The table's entry for a name is the one seeding gave it, or still missing.
AsSeeded(contractName) ==
  IF contractName \in DOMAIN SeededTable
  THEN has(contractName) /\ addresses[contractName] = SeededTable[contractName]
  ELSE ~has(contractName)

GovernanceAtDecision == Running("decide") /\ Top.name = "Governance"

(***************************************************************************)
(* C3. Governance guard: when the report entry of Governance asks for a    *)
(* new proxy, the deployment decision for Governance raises the fatal      *)
(* error and appends nothing; no entry for Governance is ever in the       *)
(* proposal, no Governance proxy is ever deployed, the table's entry for   *)
(* Governance stays the seeded one, Governance is never Released and the   *)
(* run never ends with a written proposal.                                 *)
(***************************************************************************)
C3_GovernanceGuard ==
  [][ NeedsProxy("Governance") =>
        /\ GovernanceAtDecision =>
             /\ phase' = "failed" /\ error' = "GovernanceProxy"
             /\ UNCHANGED <<proposal, addresses, deployed, owner, released>>
        /\ (EntriesFor("Governance") = << >>)'
        /\ (Deployments("Governance", TRUE) = {})'
        /\ (phase # "seeding" => AsSeeded("Governance"))'
        /\ ("Governance" \notin Released)'
        /\ (phase # "done" /\ ~written)' ]_vars

C3_Witness ==
  /\ error = "GovernanceProxy"
  /\ InReport("Governance")
  /\ report.contracts["Governance"].storage
  /\ proposal = << >>

(***************************************************************************)
(* C4, as the claim states it: when the guard raises its error, no         *)
(* deployment step at all was performed for Governance.                    *)
(***************************************************************************)
C4_GuardBeforeAnyDeployment ==
  error = "GovernanceProxy" =>
    /\ Deployments("Governance", FALSE) = {}
    /\ Deployments("Governance", TRUE) = {}

(***************************************************************************)
(* C4, amended: the guard raises its error only for a report entry that    *)
(* asks for a new proxy, and then after the new Governance implementation  *)
(* was deployed (one contract created in a real run, the last one of the   *)
(* run) and before any Governance proxy is deployed or has its ownership   *)
(* transferred.                                                            *)
(***************************************************************************)
C4_GuardAfterImplementation ==
  error = "GovernanceProxy" =>
    /\ NeedsProxy("Governance")
    /\ Deployments("Governance", TRUE) = {}
    /\ \A a \in DOMAIN owner :
         \E k \in 1..Len(deployed) :
           deployed[k].address = a /\ deployed[k].proxy /\ deployed[k].name # "Governance"
    /\ IF dryRun
       THEN Deployments("Governance", FALSE) = {}
       ELSE Deployments("Governance", FALSE) = {Len(deployed)}

C4_Witness ==
  /\ error = "GovernanceProxy"
  /\ ~dryRun
  /\ Deployments("Governance", FALSE) # {}

\* The address of the implementation, and of the proxy, the run deployed for
\* a name it deployed once (the stand-in in a dry run).
ImplementationAddress(contractName) ==
  CHOOSE a \in NewAddresses(contractName, FALSE) : TRUE

ProxyAddress(contractName) ==
  CHOOSE a \in NewAddresses(contractName, TRUE) : TRUE

DeployedOnce(contractName, isProxy) ==
  Cardinality(Deployments(contractName, isProxy)) = IF dryRun THEN 0 ELSE 1

(***************************************************************************)
(* C5. Implementation-only branch: a released core contract whose report   *)
(* entry has no storage change and no NewContract marker has exactly one   *)
(* entry in the proposal, _setImplementation on its proxy with the new     *)
(* implementation's address as only argument; no proxy was deployed for    *)
(* it, no ownership was transferred, and its table entry is unchanged.     *)
(***************************************************************************)
C5_ImplementationOnly ==
  \A u \in Released :
    ImplementationOnly(u) =>
      /\ DeployedOnce(u, FALSE)
      /\ EntriesFor(u) =
           << [contract |-> ProxyName(u), function |-> "_setImplementation",
               args |-> <<Adr(ImplementationAddress(u))>>, value |-> "0"] >>
      /\ Deployments(u, TRUE) = {}
      /\ \A a \in DOMAIN owner :
           \E k \in 1..Len(deployed) :
             deployed[k].address = a /\ deployed[k].proxy /\ deployed[k].name # u
      /\ AsSeeded(u)

C5_Witness ==
  /\ ~dryRun
  /\ "Exchange" \in Released
  /\ ImplementationOnly("Exchange")
  /\ Len(EntriesFor("Exchange")) = 1
  /\ has("Exchange")

IsRegistryEntry(tx, u, proxyAddress) ==
  /\ tx.contract = "Registry"
  /\ tx.function = "setAddressFor"
  /\ tx.args = <<Str(u), Adr(proxyAddress)>>

IsImplementationEntry(tx, u, implementationAddress) ==
  /\ tx.contract = ProxyName(u)
  /\ tx.function \in {"_setImplementation", "_setAndInitializeImplementation"}
  /\ tx.args[1] = Adr(implementationAddress)

(***************************************************************************)
(* C6. New-proxy branch: a released core contract other than Governance    *)
(* whose report entry has a storage change or a NewContract marker has the *)
(* new proxy's address in the table and exactly two entries in the         *)
(* proposal, in this order: Registry.setAddressFor [name, new proxy], then *)
(* one of _setImplementation and _setAndInitializeImplementation on its    *)
(* proxy with the new implementation's address as first argument. At no    *)
(* point are there more than these entries or in another order.            *)
(***************************************************************************)
C6_NewProxy ==
  \A u \in CeloContractName \ {"Governance"} :
    NeedsProxy(u) =>
      LET entries == EntriesFor(u)
      IN  /\ Len(entries) <= 2
          /\ Len(entries) >= 1 => IsRegistryEntry(entries[1], u, ProxyAddress(u))
          /\ Len(entries) = 2 =>
               IsImplementationEntry(entries[2], u, ImplementationAddress(u))
          /\ u \in Released =>
               /\ Len(entries) = 2
               /\ DeployedOnce(u, TRUE) /\ DeployedOnce(u, FALSE)
               /\ has(u) /\ addresses[u] = ProxyAddress(u)

C6_Witness ==
  /\ ~dryRun
  /\ "Exchange" \in Released
  /\ NeedsProxy("Exchange")
  /\ report.contracts["Exchange"].newContract
  /\ Len(EntriesFor("Exchange")) = 2
  /\ addresses["Exchange"] # SeededTable["Exchange"]

SentToProxy(u) == SelectSeq(proposal, LAMBDA tx : tx.contract = ProxyName(u))

IsCombinedEntry(tx, u) ==
  /\ tx.contract = ProxyName(u)
  /\ tx.function = "_setAndInitializeImplementation"
  /\ tx.args = <<Adr(ImplementationAddress(u)), CallData(u)>>

IsPlainEntry(tx, u) ==
  /\ tx.contract = ProxyName(u)
  /\ tx.function = "_setImplementation"
  /\ tx.args = <<Adr(ImplementationAddress(u))>>

(***************************************************************************)
(* C7, as the claim states it: whenever the new implementation of a        *)
(* released contract of the report has an initializer, its implementation  *)
(* is set by one combined entry, _setAndInitializeImplementation with      *)
(* [new implementation, encoded call].                                     *)
(***************************************************************************)
C7_CombinedWheneverInitializer ==
  \A u \in Released :
    (InReport(u) /\ abi[u].initialize) =>
      /\ Len(SentToProxy(u)) = 1
      /\ IsCombinedEntry(SentToProxy(u)[1], u)

(***************************************************************************)
(* C7, amended: no entry of a proposal is a separate initialize call and   *)
(* no proxy is sent more than one entry. In the new-proxy branch a         *)
(* released contract whose implementation has an initializer gets the one  *)
(* combined entry, one without initializer the plain _setImplementation;   *)
(* in the implementation-only branch the entry is the plain                *)
(* _setImplementation whether or not there is an initializer.              *)
(***************************************************************************)
C7_CombinedInNewProxyBranch ==
  /\ \A k \in 1..Len(proposal) : proposal[k].function # "initialize"
  /\ \A u \in CeloContractName :
       /\ Len(SentToProxy(u)) <= 1
       /\ (u \in Released /\ InReport(u)) =>
            /\ Len(SentToProxy(u)) = 1
            /\ IF NeedsProxy(u) /\ abi[u].initialize
               THEN IsCombinedEntry(SentToProxy(u)[1], u)
               ELSE IsPlainEntry(SentToProxy(u)[1], u)

C7_Witness ==
  /\ "Exchange" \in Released
  /\ NeedsProxy("Exchange")
  /\ abi["Exchange"].initialize
  /\ Len(SentToProxy("Exchange")) = 1
  /\ SentToProxy("Exchange")[1].function = "_setAndInitializeImplementation"

Overwritten(u) == has(u)' /\ (has(u) => addresses'[u] # addresses[u])

(***************************************************************************)
(* C8. Ownership transfer: in a real run every transfer of ownership is a  *)
(* direct call that gives the proxy just deployed to the address the table *)
(* holds for Governance at that moment, with the table and the proposal    *)
(* untouched by it; the table entry of a contract is overwritten with its  *)
(* new proxy, and the Registry.setAddressFor entry appended, only once     *)
(* that proxy is owned by Governance; a deployed proxy not yet owned is    *)
(* about to be transferred, unless that very transfer failed; and no entry *)
(* of the proposal is an ownership transfer.                               *)
(***************************************************************************)
C8_OwnershipTransfer ==
  [][ /\ \A a \in DOMAIN owner' :
           (a \notin DOMAIN owner \/ owner'[a] # owner[a]) =>
             /\ ~dryRun
             /\ stack # << >>
             /\ \E k \in Deployments(Top.name, TRUE) : deployed[k].address = a
             /\ has("Governance")
             /\ owner'[a] = addresses["Governance"]
             /\ UNCHANGED <<addresses, proposal>>
             /\ AsSeeded(Top.name)
             /\ EntriesFor(Top.name) = << >>
      /\ \A u \in CeloContractName :
           ( /\ phase = "releasing" /\ ~dryRun
             /\ Overwritten(u) \/ Len(EntriesFor(u))' > Len(EntriesFor(u))
             /\ NeedsProxy(u) ) =>
             \E k \in Deployments(u, TRUE) :
               /\ deployed[k].address \in DOMAIN owner
               /\ owner[deployed[k].address] = addresses["Governance"]
               /\ addresses'[u] = deployed[k].address
      /\ \A k \in 1..Len(deployed') :
           deployed'[k].proxy =>
             \/ deployed'[k].address \in DOMAIN owner'
             \/ stack' # << >> /\ Top'.pc = "transfer" /\ Top'.proxy = deployed'[k].address
             \/ phase' = "failed" /\ error' \in {"AddressNotFound", "TransferFailed"}
      /\ \A k \in 1..Len(proposal') : proposal'[k].function # "_transferOwnership"
    ]_vars

C8_Witness ==
  /\ ~dryRun
  /\ "Exchange" \in Released
  /\ \E k \in Deployments("Exchange", TRUE) :
       /\ deployed[k].address \in DOMAIN owner
       /\ owner[deployed[k].address] = RegisteredAddress("Governance")
       /\ addresses["Exchange"] = deployed[k].address
       /\ Len(EntriesFor("Exchange")) = 2

\* The next step is a call release(x).
CallPending(x) ==
  \/ /\ phase = "releasing" /\ stack = << >> /\ next <= Len(contracts)
     /\ contracts[next] = x
     /\ isCoreContract(x) /\ isProxiedContract(x)
  \/ /\ Running("deps")
     /\ Top.i <= Len(dependencies[Top.name])
     /\ dependencies[Top.name][Top.i] = x

(***************************************************************************)
(* C9. Idempotence: a call of release(x) for a released x links nothing,   *)
(* deploys nothing, transfers nothing and leaves the table, the released   *)
(* set and the proposal as they were; the body of release never runs for a *)
(* released contract.                                                      *)
(***************************************************************************)
C9_Idempotence ==
  [][ /\ \A x \in Released :
           CallPending(x) =>
             UNCHANGED <<addresses, released, proposal, deployed, owner, links, abi,
                         phase, error>>
      /\ \A k \in 1..Len(stack') : stack'[k].name \notin Released'
    ]_vars

\* Exchange has released LinkedList, which released Proposals, and has then
\* called release for Proposals a second time.
C9_Witness ==
  /\ ~dryRun
  /\ dependencies["Exchange"] = <<"LinkedList", "Proposals">>
  /\ dependencies["LinkedList"] = <<"Proposals">>
  /\ Running("deps") /\ Top.name = "Exchange" /\ Top.i = 3
  /\ "Proposals" \in report.libraries
  /\ Cardinality(Deployments("Proposals", FALSE)) = 1
  /\ Released = {"Proposals", "LinkedList"}

\* The driver has called release for a root that was released as a dependency.
RootCalledAgain ==
  /\ phase = "releasing" /\ stack = << >>
  /\ next = 4
  /\ dependencies["Exchange"] = <<"Governance">>
  /\ Released = {"Governance", "Exchange"}

(***************************************************************************)
(* C11. Post-traversal reads: the address argument of each fixed entry     *)
(* appended after the traversal (SortedOracles.addOracle and               *)
(* Reserve.addExchangeSpender, which both refer to 'Exchange' + 'GBP') is  *)
(* the address the table holds for that unit after all deployments.        *)
(***************************************************************************)
C11_PostTraversalReads ==
  written =>
    \A k \in 1..Len(proposal) :
      ( \/ proposal[k].contract = "SortedOracles" /\ proposal[k].function = "addOracle"
        \/ proposal[k].contract = "Reserve"
             /\ proposal[k].function = "addExchangeSpender" ) =>
        /\ has(ExchangeOf("GBP"))
        /\ proposal[k].args[1] = Adr(addresses[ExchangeOf("GBP")])

(***************************************************************************)
(* C12. Fail-fast: once an error was raised the run takes no further step: *)
(* no deployment, ownership transfer, table write, proposal append, link   *)
(* or release follows it; the run has ended with the error handed to the   *)
(* callback and the proposal was not and will not be written. Only a run   *)
(* without error writes the proposal.                                      *)
(***************************************************************************)
C12_FailFast ==
  [][ /\ error # "none" =>
           UNCHANGED <<addresses, proposal, deployed, owner, released, links, abi,
                       written, phase, error, stack, next>>
      /\ error' # "none" => (phase' = "failed" /\ ~written' /\ stack' = << >>)
      /\ phase' = "failed" => error' # "none"
      /\ written' => (phase' = "done" /\ error' = "none")
    ]_vars

\* The initializer's arguments did not encode: the implementation and the
\* proxy are deployed, the registry entry is in the proposal, nothing is written.
C12_Witness ==
  /\ phase = "failed" /\ error = "InitializeArgs"
  /\ Len(deployed) >= 2
  /\ Len(proposal) >= 1
  /\ ~written

\* The frame on top has released its dependencies and is about to link them,
\* and the table lacks one of them.
LinkLacksAddress ==
  /\ Running("deps")
  /\ Top.i > Len(dependencies[Top.name])
  /\ \E d \in Range(dependencies[Top.name]) : ~has(d)

(***************************************************************************)
(* C13. get fails for a name without entry and never yields a default or   *)
(* zero address: a unit one of whose dependencies has no entry after the   *)
(* dependency's release aborts at the link step with the not-found error,  *)
(* with nothing deployed and nothing appended for the unit, before and by  *)
(* that step; every link made is to the address the table holds, never to  *)
(* the zero address; and the not-found error arises only from a get of a   *)
(* missing name.                                                           *)
(***************************************************************************)
C13_GetFailsWhenAbsent ==
  [][ /\ LinkLacksAddress =>
           /\ phase' = "failed" /\ error' = "AddressNotFound"
           /\ UNCHANGED <<deployed, proposal, addresses, owner, released, abi>>
           /\ Deployments(Top.name, FALSE) = {}
           /\ Deployments(Top.name, TRUE) = {}
           /\ EntriesFor(Top.name) = << >>
           /\ Top.name \notin DOMAIN abi
      /\ \A l \in links' :
           /\ l[3] # NULL_ADDRESS
           /\ l \notin links => (has(l[2]) /\ l[3] = addresses[l[2]])
      /\ (error = "none" /\ error' = "AddressNotFound") =>
           \/ LinkLacksAddress
           \/ Running("transfer") /\ ~has("Governance")
    ]_vars

\* LinkedList is in no registry, mapping or report: its release leaves it
\* without entry, and the link of Exchange, a contract of the report, fails.
C13_Witness ==
  /\ error = "AddressNotFound"
  /\ "LinkedList" \in Released
  /\ ~has("LinkedList")
  /\ "LinkedList" \in Range(dependencies["Exchange"])
  /\ InReport("Exchange")
  /\ ~dryRun
  /\ Deployments("Exchange", FALSE) = {}
  /\ proposal = << >>

\* The name is in neither set of the report.
AbsentFromReport(contractName) ==
  /\ contractName \notin DOMAIN report.contracts
  /\ contractName \notin report.libraries

(***************************************************************************)
(* C14. Units absent from the report: no step of the release of a unit     *)
(* that is in neither the contract set nor the library set of the report   *)
(* deploys a contract, transfers ownership, writes the table or appends to *)
(* the proposal; its last step adds the unit to the released set. Such a   *)
(* unit, once released, has no deployment, no entry in the proposal and    *)
(* the table entry seeding gave it.                                        *)
(***************************************************************************)
C14_AbsentFromReport ==
  [][ /\ (stack # << >> /\ AbsentFromReport(Top.name)) =>
           /\ UNCHANGED <<deployed, owner, addresses, proposal, abi>>
           /\ Top.pc \in {"deps", "mark"}
           /\ Top.pc = "mark" => released' = Append(released, Top.name)
           /\ Top.pc = "deps" => released' = released
      /\ \A u \in Released' :
           AbsentFromReport(u) =>
             /\ Deployments(u, FALSE)' = {} /\ Deployments(u, TRUE)' = {}
             /\ EntriesFor(u)' = << >>
             /\ AsSeeded(u)'
             /\ u \notin DOMAIN abi'
    ]_vars

\* Proposals is absent from a report that names other units: it is released
\* with its seeded address while contracts were deployed around it.
C14_Witness ==
  /\ "Proposals" \in Released
  /\ AbsentFromReport("Proposals")
  /\ has("Proposals") /\ addresses["Proposals"] = LibraryAddress("Proposals")
  /\ Len(deployed) >= 1
  /\ \E l \in links : l[2] = "Proposals"

\* The name is in the library set of the report and not in its contract set.
LibraryOfReport(contractName) ==
  /\ contractName \in report.libraries
  /\ contractName \notin DOMAIN report.contracts

(***************************************************************************)
(* C15. Libraries in the report: no step of the release of a unit of the   *)
(* report's library set (not in its contract set) appends to the proposal  *)
(* or transfers ownership. Once released, the unit has exactly one         *)
(* implementation deployed by the run (none on chain in a dry run), the    *)
(* table holds that new address for it, an address no other deployment     *)
(* has and, in a real run, not the seeded one; it has no proxy and no      *)
(* entry in the proposal.                                                  *)
(***************************************************************************)
C15_LibraryInReport ==
  [][ /\ (stack # << >> /\ LibraryOfReport(Top.name)) =>
           /\ UNCHANGED <<proposal, owner>>
           /\ Top.pc \in {"deps", "library", "mark"}
           /\ Top.pc = "library" =>
                \/ phase' = "failed"
                \/ /\ has(Top.name)'
                   /\ addresses' = MapSet(addresses, Top.name, addresses'[Top.name])
                   /\ Len(deployed') = Len(deployed) + (IF dryRun THEN 0 ELSE 1)
      /\ \A u \in Released' :
           LibraryOfReport(u) =>
             /\ DeployedOnce(u, FALSE)'
             /\ has(u)'
             /\ addresses'[u] = ImplementationAddress(u)'
             /\ Deployments(u, TRUE)' = {}
             /\ EntriesFor(u)' = << >>
             /\ ~dryRun =>
                  /\ \A k \in 1..Len(deployed') :
                       deployed'[k].address = addresses'[u] => deployed'[k].name = u
                  /\ u \in DOMAIN SeededTable => addresses'[u] # SeededTable[u]
    ]_vars

\* Proposals, a library of the report with a seeded address, was deployed
\* anew and released; a contract deployed after it put entries in the proposal.
C15_Witness ==
  /\ ~dryRun
  /\ "Proposals" \in Released
  /\ LibraryOfReport("Proposals")
  /\ Cardinality(Deployments("Proposals", FALSE)) = 1
  /\ "Proposals" \in DOMAIN SeededTable
  /\ addresses["Proposals"] # SeededTable["Proposals"]
  /\ Len(proposal) >= 1

\* The units that are core contracts and have a proxy artifact of their own.
EligibleRoots == {c \in Names : c \in CeloContractName /\ c \in ProxyArtifacts}

\* The units reachable from the units of S along the dependency lists.
RECURSIVE DependencyClosure(_)
DependencyClosure(S) ==
  LET T == S \cup UNION {Range(dependencies[x]) : x \in S}
  IN  IF T = S THEN S ELSE DependencyClosure(T)

\* The eligible roots the driver loop has come to so far.
RootsCalled == {contracts[k] : k \in 1..(next - 1)} \cap EligibleRoots

\* The units the run has released, linked, deployed, read the abi of, put an
\* entry in the proposal for, or is running the body of release for.
Touched ==
  Released
    \cup {l[1] : l \in links}
    \cup {deployed[k].name : k \in 1..Len(deployed)}
    \cup DOMAIN abi
    \cup {stack[k].name : k \in 1..Len(stack)}
    \cup {u \in Names : EntriesFor(u) # << >>}

(***************************************************************************)
(* C16. Traversal roots: the outermost call of release is always for a     *)
(* unit that is both a core contract and individually proxied, and every   *)
(* unit that is released, linked, deployed or being released is such a     *)
(* root the driver has called or one of its transitive dependencies. A     *)
(* unit reachable from no eligible root is never linked, deployed or       *)
(* released, whatever the report says about it.                            *)
(***************************************************************************)
C16_TraversalRoots ==
  /\ stack # << >> => stack[1].name \in RootsCalled
  /\ Touched \subseteq DependencyClosure(RootsCalled)
  /\ \A u \in Names \ DependencyClosure(EligibleRoots) :
       /\ u \notin Touched
       /\ phase # "seeding" => AsSeeded(u)

\* The run has ended: Proposals, a library of the report that no root depends
\* on, was not deployed or released, while the roots were.
C16_Witness ==
  /\ phase = "done"
  /\ ~dryRun
  /\ "Proposals" \in report.libraries
  /\ "Proposals" \notin DependencyClosure(EligibleRoots)
  /\ "Proposals" \notin Released
  /\ Deployments("Proposals", FALSE) = {}
  /\ EligibleRoots \subseteq Released
  /\ Len(deployed) >= 1

\* s is an initial part of t, entry for entry.
IsPrefix(s, t) ==
  /\ Len(s) <= Len(t)
  /\ \A k \in 1..Len(s) : t[k] = s[k]

(***************************************************************************)
(* C17. Monotonic state: every step leaves the released units released and *)
(* in their order, removes no entry from the table, and leaves the         *)
(* proposal it found as an initial part of the proposal it leaves: entries *)
(* are added at the end only, and none is changed, moved or dropped.       *)
(***************************************************************************)
C17_Monotonic ==
  [][ /\ IsPrefix(released, released')
      /\ DOMAIN addresses \subseteq DOMAIN addresses'
      /\ IsPrefix(proposal, proposal')
    ]_vars

\* The run has ended after releasing three units, one of them with a new
\* proxy that replaced its table entry, with the entries of two contracts and
\* the fixed entries in the proposal.
C17_Witness ==
  /\ phase = "done"
  /\ Len(released) >= 3
  /\ Len(proposal) >= 7
  /\ NeedsProxy("Exchange")
  /\ "Exchange" \in DOMAIN SeededTable
  /\ addresses["Exchange"] # SeededTable["Exchange"]
  /\ ImplementationOnly("Governance")

\* The unit is on a cycle of the dependency lists.
OnCycle(u) == u \in DependencyClosure(Range(dependencies[u]))

\* A cycle can be reached from the unit.
ReachesCycle(u) == \E c \in DependencyClosure({u}) : OnCycle(c)

Acyclic == \A u \in Names : ~OnCycle(u)

\* The errors of the backend: a deployment or a transaction that fails.
BackendErrors == {"DeploymentFailed", "TransferFailed"}

AllReleased ==
  /\ phase = "done"
  /\ DependencyClosure(EligibleRoots) \subseteq Released

RegistryEntries(u) ==
  SelectSeq(proposal,
            LAMBDA tx : /\ tx.contract = "Registry"
                        /\ tx.function = "setAddressFor"
                        /\ tx.args[1] = Str(u))

(***************************************************************************)
(* C19. At-most-once deployment: whatever the number of roots and of       *)
(* dependency paths that reach a unit, the run deploys at most one         *)
(* implementation and at most one proxy for it, and the proposal holds at  *)
(* most one Registry.setAddressFor entry for it and at most one entry that *)
(* sets the implementation of its proxy.                                   *)
(***************************************************************************)
C19_AtMostOnce ==
  \A u \in Names :
    /\ Cardinality(Deployments(u, FALSE)) <= 1
    /\ Cardinality(Deployments(u, TRUE)) <= 1
    /\ Len(RegistryEntries(u)) <= 1
    /\ Len(SentToProxy(u)) <= 1

\* The diamond: Proposals is reached from Exchange directly, through
\* LinkedList, and from Governance; Exchange got a new proxy. The run has
\* ended with one deployment of Proposals and one pair of entries for Exchange.
C19_Witness ==
  /\ phase = "done"
  /\ ~dryRun
  /\ dependencies["Exchange"] = <<"LinkedList", "Proposals">>
  /\ dependencies["LinkedList"] = <<"Proposals">>
  /\ dependencies["Governance"] = <<"Proposals">>
  /\ "Proposals" \in report.libraries
  /\ Cardinality(Deployments("Proposals", FALSE)) = 1
  /\ NeedsProxy("Exchange")
  /\ Cardinality(Deployments("Exchange", TRUE)) = 1
  /\ Len(RegistryEntries("Exchange")) = 1
  /\ Len(SentToProxy("Exchange")) = 1
  /\ InReport("Governance")

\* The address arguments of an entry that registers a proxy or sets an
\* implementation.
NewAddressArgs(tx) ==
  IF tx.contract = "Registry" /\ tx.function = "setAddressFor" THEN {tx.args[2]}
  ELSE IF tx.function \in {"_setImplementation", "_setAndInitializeImplementation"}
  THEN {tx.args[1]}
  ELSE {}

\* What every dry run keeps to: nothing created on chain, no ownership
\* transferred, and the stand-in wherever a new address is recorded.
DryRunTouchesNothing ==
  /\ deployed = << >>
  /\ owner = << >>
  /\ phase # "seeding" =>
       \A u \in Names :
         AsSeeded(u) \/ (has(u) /\ addresses[u] = celoRegistryAddress)
  /\ \A k \in 1..Len(proposal) :
       NewAddressArgs(proposal[k]) \subseteq {Adr(celoRegistryAddress)}
  /\ \A l \in links :
       \/ l[3] = celoRegistryAddress
       \/ l[2] \in DOMAIN SeededTable /\ l[3] = SeededTable[l[2]]

\* The proposal of the dry run so far has the targets and functions of the
\* real run's proposal, entry for entry.
FollowsFirstRun ==
  /\ Len(proposal) <= Len(first.proposal)
  /\ \A k \in 1..Len(proposal) :
       /\ proposal[k].contract = first.proposal[k].contract
       /\ proposal[k].function = first.proposal[k].function

(***************************************************************************)
(* C20. Dry-run equivalence: a dry run over the report, graph, table and   *)
(* initialization data of a real run that succeeded does not fail, ends,   *)
(* and ends with a written proposal of the same length and the same        *)
(* sequence of targets and functions as the real run's; a dry run creates  *)
(* nothing on chain, transfers no ownership, and every new address it      *)
(* records, in the table, in a link or in the proposal, is the stand-in    *)
(* registry address.                                                       *)
(***************************************************************************)
C20_DryRunEquivalence ==
  /\ [](dryRun => DryRunTouchesNothing)
  /\ [](first.run =>
          /\ dryRun
          /\ phase # "failed" /\ error = "none"
          /\ FollowsFirstRun
          /\ phase = "done" => (written /\ Len(proposal) = Len(first.proposal)))
  /\ first.run ~> (phase = "done" /\ written)

\* The dry run after a real run has ended: both proposals have the entries
\* of a new proxy with an initializer, the real run's with the addresses it
\* deployed, the dry run's with the stand-in; a library of the report is at
\* the stand-in in the table.
C20_Witness ==
  /\ first.run /\ phase = "done" /\ written
  /\ Len(proposal) >= 6
  /\ \E k \in 1..Len(proposal) :
       /\ proposal[k].function = "_setAndInitializeImplementation"
       /\ proposal[k].args[1] = Adr(celoRegistryAddress)
       /\ first.proposal[k].args[1] # Adr(celoRegistryAddress)
  /\ "Proposals" \in report.libraries
  /\ "Proposals" \in Released
  /\ addresses["Proposals"] = celoRegistryAddress

\* The abi the step reads for the contract of the top frame has no
\* getVersionNumber.
ReadsNoVersion(pc) ==
  /\ Running(pc)
  /\ Top.name \in DOMAIN abi'
  /\ ~abi'[Top.name].getVersionNumber

(***************************************************************************)
(* C21. Version-number check: when the implementation deployed for a core  *)
(* contract of the report has no getVersionNumber, that step raises the    *)
(* fatal error, with nothing appended to the proposal for the contract, no *)
(* proxy deployed for it and the table unchanged; the error arises in no   *)
(* other way, so a released contract of the report has a version number.   *)
(* A library of the report without getVersionNumber is deployed and        *)
(* recorded in the table all the same.                                      *)
(***************************************************************************)
C21_VersionNumberCheck ==
  [][ /\ ReadsNoVersion("core") =>
           /\ InReport(Top.name)
           /\ phase' = "failed" /\ error' = "NoVersionNumber"
           /\ UNCHANGED <<proposal, addresses, owner, released>>
           /\ EntriesFor(Top.name) = << >>
           /\ Deployments(Top.name, TRUE) = {}
           /\ \A k \in 1..Len(deployed') : ~deployed'[k].proxy \/ k <= Len(deployed)
      /\ (error = "none" /\ error' = "NoVersionNumber") => ReadsNoVersion("core")
      /\ \A u \in Released' : InReport(u) => abi'[u].getVersionNumber
      /\ ReadsNoVersion("library") =>
           /\ error' = "none" /\ phase' = "releasing"
           /\ addresses' = MapSet(addresses, Top.name,
                                  IF dryRun THEN celoRegistryAddress ELSE FreshAddress)
    ]_vars

\* Proposals, a library of the report without getVersionNumber, was deployed
\* and released; then a contract of the report without it ended the run.
C21_Witness ==
  /\ error = "NoVersionNumber"
  /\ ~dryRun
  /\ "Proposals" \in Released
  /\ LibraryOfReport("Proposals")
  /\ ~abi["Proposals"].getVersionNumber
  /\ Cardinality(Deployments("Proposals", FALSE)) = 1
  /\ addresses["Proposals"] # SeededTable["Proposals"]
  /\ \E k \in 1..Len(deployed) :
       /\ deployed[k].name \in DOMAIN report.contracts
       /\ ~abi[deployed[k].name].getVersionNumber

\* The nonces the signatures were made over, of the meta-transactions
\* executed and of those whose external call is in progress, in order.
NoncesUsed(evts, frms) ==
  [k \in 1..Len(evts) |-> evts[k].signed] \o [k \in 1..Len(frms) |-> frms[k].sig.nonce]

\* The call just made was accepted: its external call is in progress.
Accepted == Len(frames') > Len(frames)

(***************************************************************************)
(* C22. Replay protection: a call of executeMetaTransaction is accepted    *)
(* only with a signature made by the current signer over the fields given  *)
(* and the current nonce, and the nonce is one more from before the        *)
(* external call starts until the call ends. The nonce goes down only when *)
(* a call in progress reverts, back to what it was before that call, so    *)
(* between transactions it never decreases. No nonce is used twice among   *)
(* the meta-transactions executed and in progress: a signed                *)
(* meta-transaction executes at most once, and the same signature given    *)
(* again, from outside or by the contract called, is refused.              *)
(***************************************************************************)
C22_ReplayProtection ==
  [][ /\ Accepted =>
           LET frame == frames'[Len(frames')]
           IN  /\ frame.sig.by = signer
               /\ frame.sig.nonce = nonce
               /\ frame.nonce = nonce
               /\ nonce' = nonce + 1
               /\ UNCHANGED <<signer, executions>>
      /\ \A k \in 1..Len(frames') : frames'[k].nonce < nonce'
      /\ nonce' < nonce =>
           /\ frames # << >>
           /\ nonce' = frames[Len(frames)].nonce
           /\ executions' = frames[Len(frames)].executions
      /\ (frames' = << >> /\ frames # << >>) => nonce' >= frames[1].nonce
      /\ (frames' = << >> /\ frames = << >>) => nonce' = nonce
      /\ LET used == NoncesUsed(executions', frames')
         IN  \A j, k \in 1..Len(used) : j # k => used[j] # used[k]
    ]_vars

\* The contract called by a meta-transaction of alice has called
\* executeMetaTransaction back with the same signature and was refused,
\* after an earlier meta-transaction was executed.
C22_Witness ==
  /\ Len(frames) = 1
  /\ frames[1].sig.by = "alice" /\ frames[1].sig.msg = "reenter"
  /\ refused = [by |-> "alice", msg |-> "reenter", nonce |-> frames[1].sig.nonce,
                depth |-> 2]
  /\ Len(executions) >= 1
  /\ nonce = frames[1].sig.nonce + 1

(***************************************************************************)
(* C23. sendSms fallback: a call makes at most two verification requests,  *)
(* the first on channel 'sms'. A second request is made only when the      *)
(* first failed with the landline-not-supported error; it is the first     *)
(* request with the channel 'call' and the app hash cleared, all else the  *)
(* same. Any other error of the first request, and any error of the        *)
(* second, is the error sendSms rejects with, and no request follows it.   *)
(***************************************************************************)
C23_Fallback ==
  [][ /\ Len(requests') <= 2
      /\ Len(requests') >= 1 => requests'[1].channel = "sms"
      /\ Len(requests') = 2 =>
           /\ Len(failures') >= 1
           /\ IncludesLandline(failures'[1])
           /\ requests'[2] = [requests'[1] EXCEPT !.channel = "call",
                                                  !.appHash = "undefined"]
      /\ Len(failures') <= Len(requests')
      /\ \A e \in Errors :
           (Len(failures') > Len(failures) /\ failures'[Len(failures')] = e) =>
             IF smsPc = "first" /\ IncludesLandline(e)
             THEN thrown' = "none" /\ smsPc' = "second"
             ELSE thrown' = e /\ smsPc' = "done" /\ requests' = requests
      /\ smsPc = "done" => UNCHANGED sms
      /\ thrown' # "none" => (smsPc' = "done" /\ thrown' = failures'[Len(failures')])
    ]_vars

\* The first request, with app hash and locale, failed for a landline; the
\* call was tried without the app hash and failed too.
C23_Witness ==
  /\ smsPc = "done"
  /\ Len(requests) = 2
  /\ requests[1].appHash = "hash" /\ requests[1].locale = "en-gb"
  /\ requests[2].appHash = "undefined" /\ requests[2].channel = "call"
  /\ requests[2].locale = "en-gb"
  /\ Len(failures) = 2
  /\ thrown = "Too many requests"

\* The attestation was given with one of the Spanish variants, in any case.
SpanishVariant ==
  /\ Truthy(given.language)
  /\ toLocaleLowerCase(given.language) \in {"es-419", "es-us", "es-la"}

(***************************************************************************)
(* C24. Locale normalization: the locale of every request is one of        *)
(* twilioSupportedLocales or is omitted, and for an attestation given with *)
(* 'es-419', 'es-us' or 'es-la' in any letter case the requests carry the  *)
(* locale 'es'.                                                            *)
(***************************************************************************)
C24_LocaleNormalization ==
  \A k \in 1..Len(requests) :
    /\ requests[k].locale \in twilioSupportedLocales \cup {"absent"}
    /\ SpanishVariant => requests[k].locale = "es"
=============================================================================
